---- MODULE Spec2Model ----
(***************************************************************************)
(* Model of the note parsing and event extraction engine of                *)
(* Obsidian-Big-Calendar: src/obComponents/parser.ts and getEvents.ts.     *)
(*                                                                         *)
(* A JavaScript string is a sequence of one-character strings.  Indexes    *)
(* into strings (match positions, lastIndex) are the 0-based JavaScript    *)
(* indexes; the character at JavaScript index i of s is s[i + 1].          *)
(***************************************************************************)
EXTENDS Integers, Sequences, FiniteSets, TLC

(***************************************************************************)
(* Characters and string primitives                                        *)
(***************************************************************************)
Digit == {"0", "1", "2", "3", "4", "5", "6", "7", "8", "9"}

\* \s, restricted to the white space that occurs in the modelled inputs.
WhiteSpace == {" ", "\t", "\n"}

\* Line terminators: the characters "." does not match.
LineTerminator == {"\n"}

DigitVal(c) ==
  CASE c = "0" -> 0 [] c = "1" -> 1 [] c = "2" -> 2 [] c = "3" -> 3
    [] c = "4" -> 4 [] c = "5" -> 5 [] c = "6" -> 6 [] c = "7" -> 7
    [] c = "8" -> 8 [] c = "9" -> 9

DigitChar(n) ==
  CASE n = 0 -> "0" [] n = 1 -> "1" [] n = 2 -> "2" [] n = 3 -> "3"
    [] n = 4 -> "4" [] n = 5 -> "5" [] n = 6 -> "6" [] n = 7 -> "7"
    [] n = 8 -> "8" [] n = 9 -> "9"

\* The character at JavaScript index i, or "" outside the string.
At(s, i) == IF i >= 0 /\ i < Len(s) THEN s[i + 1] ELSE ""

\* s.substring(from, to)
Substring(s, from, to) == SubSeq(s, from + 1, to)

\* The literal lit occurs in s at JavaScript index i.
LitAt(s, i, lit) ==
  /\ i >= 0
  /\ i + Len(lit) <= Len(s)
  /\ \A k \in 1..Len(lit) : s[i + k] = lit[k]

\* s.startsWith(prefix)
StartsWith(s, prefix) == LitAt(s, 0, prefix)

\* s.indexOf(lit), -1 when lit does not occur.
IndexOf(s, lit) ==
  LET hits == {i \in 0..Len(s) : LitAt(s, i, lit)}
  IN  IF hits = {} THEN -1
      ELSE CHOOSE i \in hits : \A j \in hits : i <= j

\* s.replace(lit, ''): removes the first occurrence of the string lit.
ReplaceFirst(s, lit) ==
  LET i == IndexOf(s, lit)
  IN  IF i = -1 THEN s
      ELSE Substring(s, 0, i) \o Substring(s, i + Len(lit), Len(s))

\* s.trim()
Trim(s) ==
  LET keep == {i \in 1..Len(s) : s[i] \notin WhiteSpace}
  IN  IF keep = {} THEN <<>>
      ELSE LET lo == CHOOSE i \in keep : \A j \in keep : i <= j
               hi == CHOOSE i \in keep : \A j \in keep : i >= j
           IN  SubSeq(s, lo, hi)

\* The number of leading characters of s, from index i on, that are in set.
RECURSIVE Span(_, _, _)
Span(s, i, set) ==
  IF At(s, i) \in set THEN 1 + Span(s, i + 1, set) ELSE 0

\* Number.prototype.toString for a natural number.
RECURSIVE NatToString(_)
NatToString(n) ==
  IF n < 10 THEN <<DigitChar(n)>>
  ELSE NatToString(n \div 10) \o <<DigitChar(n % 10)>>

\* parseInt of a string of digits.
RECURSIVE ParseNat(_)
ParseNat(s) ==
  IF s = <<>> THEN 0
  ELSE 10 * ParseNat(SubSeq(s, 1, Len(s) - 1)) + DigitVal(s[Len(s)])

\* array.join(sep)
RECURSIVE Join(_, _)
Join(parts, sep) ==
  IF parts = <<>> THEN <<>>
  ELSE IF Len(parts) = 1 THEN parts[1]
  ELSE parts[1] \o sep \o Join(Tail(parts), sep)

(***************************************************************************)
(* PATTERNS: each pattern is an operator giving, for a string and a start  *)
(* index, the index just past the match that the backtracking matcher      *)
(* finds there, or -1 when the pattern does not match at that index.       *)
(***************************************************************************)
NoMatch == -1

\* \d{4}-\d{2}-\d{2} at index i
IsoDateAt(s, i) ==
  /\ \A k \in {0, 1, 2, 3, 5, 6, 8, 9} : At(s, i + k) \in Digit
  /\ At(s, i + 4) = "-"
  /\ At(s, i + 7) = "-"

\* (\d{1,2}):(\d{2}) at index i
HourMinuteAt(s, i) ==
  IF /\ At(s, i) \in Digit /\ At(s, i + 1) \in Digit /\ At(s, i + 2) = ":"
     /\ At(s, i + 3) \in Digit /\ At(s, i + 4) \in Digit
  THEN i + 5
  ELSE IF /\ At(s, i) \in Digit /\ At(s, i + 1) = ":"
          /\ At(s, i + 2) \in Digit /\ At(s, i + 3) \in Digit
       THEN i + 4
       ELSE NoMatch

\* (?::(\d{2}))? at index e, the end of the hour and minute (or NoMatch)
SecondsAt(s, e) ==
  IF e = NoMatch THEN NoMatch
  ELSE IF At(s, e) = ":" /\ At(s, e + 1) \in Digit /\ At(s, e + 2) \in Digit
       THEN e + 3
       ELSE e

\* (\d{1,2}):(\d{2})(?::(\d{2}))? at index i
TimeAt(s, i) == SecondsAt(s, HourMinuteAt(s, i))

\* PATTERNS.TIME_STANDARD
TIME_STANDARD(s, i) == TimeAt(s, i)

\* <\/time> at index e, the end of the time (or NoMatch)
CloseTagAt(s, e) ==
  IF e # NoMatch /\ LitAt(s, e, <<"<", "/", "t", "i", "m", "e", ">">>)
  THEN e + 7
  ELSE NoMatch

\* PATTERNS.TIME_WITH_TAG: <time>(\d{1,2}):(\d{2})(?::(\d{2}))?<\/time>
TIME_WITH_TAG(s, i) ==
  IF LitAt(s, i, <<"<", "t", "i", "m", "e", ">">>)
  THEN CloseTagAt(s, TimeAt(s, i + 6))
  ELSE NoMatch

\* The two characters that open PATTERNS.END_TIME in the source file.
EndTimeMarker == <<"U+00E2", "U+00B2">>

\* PATTERNS.END_TIME: the marker, \s?, then a time (a time starts with a
\* digit, so \s? takes the white space whenever there is one)
END_TIME(s, i) ==
  IF ~LitAt(s, i, EndTimeMarker) THEN NoMatch
  ELSE TimeAt(s, IF At(s, i + 2) \in WhiteSpace THEN i + 3 ELSE i + 2)

\* PATTERNS.DUE_DATE: \s?@{(\d{4}-\d{2}-\d{2})}
DueBodyAt(s, i) ==
  /\ LitAt(s, i, <<"@", "{">>)
  /\ IsoDateAt(s, i + 2)
  /\ At(s, i + 12) = "}"

DUE_DATE(s, i) ==
  IF At(s, i) \in WhiteSpace /\ DueBodyAt(s, i + 1) THEN i + 14
  ELSE IF DueBodyAt(s, i) THEN i + 13
  ELSE NoMatch

\* The alternatives of PATTERNS._DUE_DATE's prefix group, in source order;
\* the first two are the character sequences the source file holds.
DuePrefixes ==
  << <<"U+00F0", "U+0178", "U+201C", "U+2026">>,
     <<"U+00F0", "U+0178", "U+201C", "U+2020">>,
     <<"@", "{">>,
     <<"[", "d", "u", "e", ":", ":">> >>

\* \s?(\d{4}-\d{2}-\d{2})(\])? at index p (a date starts with a digit, so
\* \s? takes the white space whenever there is one)
DateAndBracketAt(s, p) ==
  IF ~IsoDateAt(s, p) THEN NoMatch
  ELSE IF At(s, p + 10) = "]" THEN p + 11 ELSE p + 10

AfterDuePrefix(s, p) ==
  DateAndBracketAt(s, IF At(s, p) \in WhiteSpace THEN p + 1 ELSE p)

\* The first alternative of the prefix group that matches at index i.
DuePrefixAt(s, i, alts) ==
  IF alts = {} THEN NoMatch
  ELSE AfterDuePrefix(s, i + Len(DuePrefixes[CHOOSE a \in alts :
                                                \A b \in alts : a <= b]))

\* PATTERNS._DUE_DATE: \s(..|..|(@{)|(\[due::))\s?(\d{4}-\d{2}-\d{2})(\])?
\* (no two alternatives match at the same index)
UNDERSCORE_DUE_DATE(s, i) ==
  IF At(s, i) \notin WhiteSpace THEN NoMatch
  ELSE DuePrefixAt(s, i + 1,
                   {k \in 1..Len(DuePrefixes) : LitAt(s, i + 1, DuePrefixes[k])})

\* (-|\*|\+|\d+\.) at index i
DigitsMarkerAt(s, i, n) ==
  IF n > 0 /\ At(s, i + n) = "." THEN i + n + 1 ELSE NoMatch

ListMarkerAt(s, i) ==
  IF At(s, i) \in {"-", "*", "+"} THEN i + 1
  ELSE DigitsMarkerAt(s, i, Span(s, i, Digit))

\* \s+(.*)$ at index e, the end of the checkbox
TaskTextAt(s, e, t) ==
  IF t > e /\ \A k \in t..(Len(s) - 1) : At(s, k) \notin LineTerminator
  THEN Len(s)
  ELSE NoMatch

\* \[(.)\] at index b, after the marker that ends at m and the white space
\* after it
TaskBoxAt(s, m, b) ==
  IF /\ b > m
     /\ At(s, b) = "["
     /\ At(s, b + 1) # "" /\ At(s, b + 1) \notin LineTerminator
     /\ At(s, b + 2) = "]"
  THEN TaskTextAt(s, b + 3, b + 3 + Span(s, b + 3, WhiteSpace))
  ELSE NoMatch

TaskAfterMarker(s, m) ==
  IF m = NoMatch THEN NoMatch ELSE TaskBoxAt(s, m, m + Span(s, m, WhiteSpace))

\* PATTERNS.TASK: ^(\s*)(-|\*|\+|\d+\.)\s+\[(.)\]\s+(.*)$ ; it is anchored,
\* so it can only match at index 0.
TASK(s, i) ==
  IF i = 0 THEN TaskAfterMarker(s, ListMarkerAt(s, Span(s, 0, WhiteSpace)))
  ELSE NoMatch

(***************************************************************************)
(* RegExp execution.  A pattern with the g flag reads and writes its own   *)
(* lastIndex; PATTERNS is a module-level object, so the lastIndex of each  *)
(* of its g patterns is program state that outlives a call.                *)
(***************************************************************************)
NoResult == [found |-> FALSE, index |-> 0, end |-> 0]

\* The pattern of PATTERNS named p, applied to s at index i.
MatchAt(p, s, i) ==
  CASE p = "TIME_STANDARD" -> TIME_STANDARD(s, i)
    [] p = "TIME_WITH_TAG" -> TIME_WITH_TAG(s, i)
    [] p = "END_TIME"      -> END_TIME(s, i)
    [] p = "DUE_DATE"      -> DUE_DATE(s, i)
    [] p = "_DUE_DATE"     -> UNDERSCORE_DUE_DATE(s, i)
    [] p = "TASK"          -> TASK(s, i)

\* The leftmost match among the outcomes of the pattern at the indexes
\* lastIndex, lastIndex + 1, ... (ends[k] is the outcome at lastIndex + k - 1).
LeftmostOf(lastIndex, ends, hits) ==
  IF hits = {} THEN NoResult
  ELSE (LET k == CHOOSE a \in hits : \A b \in hits : a <= b
        IN  [found |-> TRUE, index |-> lastIndex + k - 1, end |-> ends[k]])

Leftmost(lastIndex, ends) ==
  LeftmostOf(lastIndex, ends, {k \in 1..Len(ends) : ends[k] # NoMatch})

\* RegExpBuiltinExec for the g pattern named p started at lastIndex: the
\* leftmost match that starts at or after lastIndex (none when lastIndex
\* is past the end of s).
Exec(p, s, lastIndex) ==
  Leftmost(lastIndex,
           [k \in 1..(Len(s) - lastIndex + 1) |-> MatchAt(p, s, lastIndex + k - 1)])

\* The result of test() for a match record, and the new lastIndex (the end
\* of the match, or 0 when there is none).
TestOutcome(m) ==
  [ret |-> m.found, lastIndex |-> IF m.found THEN m.end ELSE 0]

\* RegExp.prototype.test for a g pattern
Test(p, s, lastIndex) == TestOutcome(Exec(p, s, lastIndex))

\* The matches of the matcher from the match m on.
RECURSIVE MatchAllDueDate(_, _)
MatchAllFrom(s, m) ==
  IF ~m.found THEN <<>> ELSE <<m>> \o MatchAllDueDate(s, m.end)

\* String.prototype.matchAll(PATTERNS.DUE_DATE): the matcher is a copy of
\* the pattern that starts at the pattern's current lastIndex; the
\* pattern's own lastIndex is left as it is.
MatchAllDueDate(s, lastIndex) ==
  MatchAllFrom(s, Exec("DUE_DATE", s, lastIndex))

(***************************************************************************)
(* moment(text, 'YYYY-MM-DD'), format('YYYYMMDDHHmm') and toDate()         *)
(***************************************************************************)
IsLeapYear(y) == (y % 4 = 0 /\ y % 100 # 0) \/ y % 400 = 0

DaysInMonth(y, m) ==
  IF m = 2 THEN (IF IsLeapYear(y) THEN 29 ELSE 28)
  ELSE IF m \in {4, 6, 9, 11} THEN 30 ELSE 31

\* moment(text, 'YYYY-MM-DD') for a text of the shape \d{4}-\d{2}-\d{2}:
\* local midnight of that day, or an invalid moment when the month or the
\* day is out of range.
Moment(text) ==
  LET y == ParseNat(SubSeq(text, 1, 4))
      m == ParseNat(SubSeq(text, 6, 7))
      d == ParseNat(SubSeq(text, 9, 10))
  IN  IF m \in 1..12 /\ d >= 1 /\ d <= DaysInMonth(y, m)
      THEN [valid |-> TRUE, year |-> y, month |-> m, day |-> d,
            hour |-> 0, minute |-> 0]
      ELSE [valid |-> FALSE, year |-> 0, month |-> 0, day |-> 0,
            hour |-> 0, minute |-> 0]

\* n as decimal digits, left-padded with zeros to width w.
RECURSIVE ZeroPad(_, _)
ZeroPad(s, w) == IF Len(s) >= w THEN s ELSE ZeroPad(<<"0">> \o s, w)

InvalidDateText ==
  <<"I", "n", "v", "a", "l", "i", "d", " ", "d", "a", "t", "e">>

\* moment.format('YYYYMMDDHHmm')
FormatYYYYMMDDHHmm(mom) ==
  IF ~mom.valid THEN InvalidDateText
  ELSE ZeroPad(NatToString(mom.year), 4) \o ZeroPad(NatToString(mom.month), 2)
       \o ZeroPad(NatToString(mom.day), 2) \o ZeroPad(NatToString(mom.hour), 2)
       \o ZeroPad(NatToString(mom.minute), 2)

\* moment.toDate(): the Date of the same instant (an Invalid Date for an
\* invalid moment).
ToDate(mom) == mom

(***************************************************************************)
(* parser.ts: extractDates, cleanContent, parseLine, convertToEvent        *)
(***************************************************************************)
\* The DateInfo pushed for a match (match[1] is the ten characters before
\* the closing brace).
DateInfoOf(line, date, rawMatch) ==
  [date     |-> date,
   moment   |-> Moment(date),
   type     |-> "date",
   rawMatch |-> rawMatch]

DateInfos(line, dueDateMatches) ==
  [k \in 1..Len(dueDateMatches) |->
     DateInfoOf(line,
                Substring(line, dueDateMatches[k].end - 11, dueDateMatches[k].end - 1),
                Substring(line, dueDateMatches[k].index, dueDateMatches[k].end))]

\* extractDates(line); dueLastIndex is PATTERNS.DUE_DATE.lastIndex at the call.
ExtractDates(line, dueLastIndex) ==
  DateInfos(line, MatchAllDueDate(line, dueLastIndex))

\* cleanContent(content, dates)
RECURSIVE CleanContentLoop(_, _)
CleanContentLoop(result, dates) ==
  IF dates = <<>> THEN result
  ELSE CleanContentLoop(
         IF Head(dates).rawMatch # <<>>
         THEN ReplaceFirst(result, Head(dates).rawMatch) ELSE result,
         Tail(dates))

CleanContent(content, dates) == Trim(CleanContentLoop(content, dates))

\* The ParsedLine parseLine returns, given the dates extracted.
ParsedLineOf(line, dates) ==
  [originalLine  |-> line.header \o line.body,
   content       |-> CleanContent(IF Len(line.header) = 0 THEN line.body
                                  ELSE line.header, dates),
   indentation   |-> <<>>,
   isTask        |-> FALSE,
   isListItem    |-> FALSE,
   listMarker    |-> <<>>,
   dates         |-> dates,
   hasRecurrence |-> FALSE]

\* parseLine(line) for a ListEntry [header, body]
ParseLine(line, dueLastIndex) ==
  ParsedLineOf(line, ExtractDates(line.body, dueLastIndex))

\* The id without the line index.
EventId_NoIndex(startDate, lineIndex) ==
  FormatYYYYMMDDHHmm(startDate) \o <<"0", "0">>

\* The id of an event: `${startDate.format('YYYYMMDDHHmm')}00${lineIndex}`
EventId(startDate, lineIndex) ==
  FormatYYYYMMDDHHmm(startDate) \o <<"0", "0">> \o NatToString(lineIndex)

\* parsedLine.dates.some((d) => d.type === 'date')
HasDate(parsedLine) ==
  \E k \in 1..Len(parsedLine.dates) : parsedLine.dates[k].type = "date"

\* convertToEvent with the date check left out: an entry without dates is
\* given the default date.
ConvertToEvent_DefaultDate(parsedLine, lineIndex, path) ==
  LET first == IF parsedLine.dates = <<>>
               THEN Moment(<<"2", "0", "2", "4", "-", "0", "1", "-", "0", "1">>)
               ELSE parsedLine.dates[1].moment
  IN  << [id        |-> EventId(first, lineIndex),
          title     |-> parsedLine.content,
          start     |-> ToDate(first),
          end       |-> ToDate(first),
          allDay    |-> TRUE,
          eventType |-> "default",
          path      |-> path] >>

\* convertToEvent(parsedLine, lineIndex, path): <<>> for null, <<event>>
\* for an event.
ConvertToEvent(parsedLine, lineIndex, path) ==
  IF ~HasDate(parsedLine) THEN <<>>
  ELSE LET startDate == parsedLine.dates[1].moment
           endDate   == parsedLine.dates[1].moment
       IN  << [id        |-> EventId(startDate, lineIndex),
               title     |-> parsedLine.content,
               start     |-> ToDate(startDate),
               end       |-> ToDate(endDate),
               allDay    |-> TRUE,
               eventType |-> "default",
               path      |-> path] >>

(***************************************************************************)
(* parser.ts: STATUS_MAPPING, getMarkBasedOnEvent, lineContainsTime        *)
(***************************************************************************)
\* STATUS_MAPPING: status character -> TaskStatus
STATUS_MAPPING ==
  (" " :> "Todo") @@ ("x" :> "Done") @@ ("X" :> "Done")
  @@ ("-" :> "Cancelled") @@ (">" :> "Forwarded") @@ ("D" :> "Deferred")
  @@ ("/" :> "InProgress") @@ ("?" :> "Question") @@ ("!" :> "Important")
  @@ ("i" :> "Info") @@ ("B" :> "Bookmark") @@ ("P" :> "Pro")
  @@ ("C" :> "Con") @@ ("b" :> "Brainstorming") @@ ("E" :> "Example")
  @@ ("Q" :> "Quote") @@ ("N" :> "Note") @@ ("W" :> "Win")
  @@ ("L" :> "Lose") @@ ("+" :> "Add") @@ ("R" :> "Reviewed")

\* The cases of the switch in getMarkBasedOnEvent, in source order.
MarkCases ==
  << [kind |-> <<"T", "O", "D", "O">>, mark |-> " "],
     [kind |-> <<"D", "O", "N", "E">>, mark |-> "x"],
     [kind |-> <<"C", "A", "N", "C", "E", "L", "L", "E", "D">>, mark |-> "-"],
     [kind |-> <<"I", "N", "_", "P", "R", "O", "G", "R", "E", "S", "S">>, mark |-> "/"],
     [kind |-> <<"I", "M", "P", "O", "R", "T", "A", "N", "T">>, mark |-> "!"],
     [kind |-> <<"Q", "U", "E", "S", "T", "I", "O", "N">>, mark |-> "?"],
     [kind |-> <<"R", "E", "V", "I", "E", "W">>, mark |-> ">"],
     [kind |-> <<"I", "D", "E", "A">>, mark |-> "i"],
     [kind |-> <<"P", "R", "O">>, mark |-> "+"],
     [kind |-> <<"C", "O", "N">>, mark |-> "-"],
     [kind |-> <<"B", "R", "A", "I", "N", "S", "T", "O", "R", "M", "I", "N", "G">>, mark |-> "b"],
     [kind |-> <<"E", "X", "A", "M", "P", "L", "E">>, mark |-> "e"],
     [kind |-> <<"Q", "U", "O", "T", "E">>, mark |-> "q"],
     [kind |-> <<"N", "O", "T", "E">>, mark |-> "n"],
     [kind |-> <<"W", "I", "N">>, mark |-> "w"],
     [kind |-> <<"L", "O", "S", "E">>, mark |-> "l"] >>

\* The result of the switch's default case.
DefaultMark == " "

\* The kind taken as everything after "TASK-".
TaskTypeOf_Rest(eventType) == Substring(eventType, 5, Len(eventType))

\* eventType.split('-')[1]: the text between the first and the second "-"
\* (eventType starts with "TASK-", so the first "-" is at index 4).
TaskTypeOf(eventType) ==
  LET rest == Substring(eventType, 5, Len(eventType))
      stop == IndexOf(rest, <<"-">>)
  IN  IF stop = -1 THEN rest ELSE Substring(rest, 0, stop)

\* getMarkBasedOnEvent(eventType): <<>> for null, <<mark>> for a character.
GetMarkBasedOnEvent(eventType) ==
  IF eventType = <<>> \/ ~StartsWith(eventType, <<"T", "A", "S", "K", "-">>)
  THEN <<>>
  ELSE LET taskType == TaskTypeOf(eventType)
           hits == {k \in 1..Len(MarkCases) : MarkCases[k].kind = taskType}
       IN  IF hits = {} THEN <<DefaultMark>>
           ELSE <<MarkCases[CHOOSE k \in hits : \A j \in hits : k <= j].mark>>

\* The g patterns of PATTERNS that lineContainsTime tests.
TestedPatterns ==
  {"TIME_STANDARD", "TIME_WITH_TAG", "DUE_DATE", "_DUE_DATE", "END_TIME"}

\* The g patterns lineContainsTime tests, in the order of its || chain.
TestOrder ==
  <<"TIME_STANDARD", "TIME_WITH_TAG", "DUE_DATE", "_DUE_DATE", "END_TIME">>

\* The || chain of lineContainsTime from its k-th test on, given the
\* lastIndex of each g pattern: the result, and the lastIndex of each
\* pattern after the call.  Each test() leaves its pattern's lastIndex at
\* the end of its match, or at 0 when it fails; || stops at the first test
\* that succeeds, so the later patterns are not touched.  PATTERNS.TASK,
\* the last operand, has no g flag and no state.
RECURSIVE TestChain(_, _, _)
AfterTest(line, k, t, next) ==
  IF t.ret THEN [ret |-> TRUE, lastIndex |-> next]
  ELSE TestChain(line, next, k + 1)

TestStep(line, li, k, t) ==
  AfterTest(line, k, t, [li EXCEPT ![TestOrder[k]] = t.lastIndex])

TestChain(line, li, k) ==
  IF k > Len(TestOrder)
  THEN [ret |-> TASK(line, 0) # NoMatch, lastIndex |-> li]
  ELSE TestStep(line, li, k, Test(TestOrder[k], line, li[TestOrder[k]]))

\* lineContainsTime(line)
LineContainsTime(line, li) == TestChain(line, li, 1)

(***************************************************************************)
(* getEvents.ts: getEventsFromFile                                         *)
(***************************************************************************)
\* \[.\] at index b, after the hyphen at index m and the white space after it
CheckboxAt(line, m, b) ==
  IF /\ b > m + 1
     /\ At(line, b) = "["
     /\ At(line, b + 1) # "" /\ At(line, b + 1) \notin LineTerminator
     /\ At(line, b + 2) = "]"
  THEN b + 3
  ELSE NoMatch

HyphenAt(line, m) ==
  IF At(line, m) = "-"
  THEN CheckboxAt(line, m, m + 1 + Span(line, m + 1, WhiteSpace))
  ELSE NoMatch

\* /^\s*-\s+\[.\]/ : the index just past the checkbox, or NoMatch.
ListEntryPrefix(line) == HyphenAt(line, Span(line, 0, WhiteSpace))

\* line.match(/^\s*-\s+\[.\]/)
IsListEntry(line) == ListEntryPrefix(line) # NoMatch

\* The rest of the line after the prefix that ends at e and the white
\* space after it.
AfterPrefix(line, e) ==
  Substring(line, e + Span(line, e, WhiteSpace), Len(line))

\* line.replace(/^\s*-\s+\[.\]\s*/, '').trim()
HeaderOf(line) == Trim(AfterPrefix(line, ListEntryPrefix(line)))

\* fileLines[nextIndex].match(/^\s+/)
IsIndented(line) == At(line, 0) \in WhiteSpace

\* The inner while loop without the test that stops it at a list entry.
RECURSIVE BodyEnd_IndentOnly(_, _)
BodyEnd_IndentOnly(fileLines, nextIndex) ==
  IF /\ nextIndex < Len(fileLines)
     /\ IsIndented(fileLines[nextIndex + 1])
  THEN BodyEnd_IndentOnly(fileLines, nextIndex + 1)
  ELSE nextIndex

\* The inner while loop: the index of the first line, from nextIndex on,
\* that is not taken into the body.
RECURSIVE BodyEnd(_, _)
BodyEnd(fileLines, nextIndex) ==
  IF /\ nextIndex < Len(fileLines)
     /\ IsIndented(fileLines[nextIndex + 1])
     /\ ~IsListEntry(fileLines[nextIndex + 1])
  THEN BodyEnd(fileLines, nextIndex + 1)
  ELSE nextIndex

\* bodyLines: the trimmed lines of indexes from..(to - 1)
BodyLines(fileLines, from, to) ==
  [k \in 1..(to - from) |-> Trim(fileLines[from + k])]

\* The iteration of the outer loop at a list entry whose body ends before
\* nextIndex.
ListIteration(fileLines, currentIndex, nextIndex) ==
  [index     |-> currentIndex,
   isList    |-> TRUE,
   listEntry |-> [header |-> HeaderOf(fileLines[currentIndex + 1]),
                  body   |-> Join(BodyLines(fileLines, currentIndex + 1,
                                            nextIndex), <<"\n">>)],
   nextIndex |-> nextIndex]

\* The iteration of the outer loop at any other line.
LineIteration(fileLines, currentIndex) ==
  [index     |-> currentIndex,
   isList    |-> FALSE,
   listEntry |-> [header |-> <<>>, body |-> fileLines[currentIndex + 1]],
   nextIndex |-> currentIndex + 1]

\* The outer while loop's grouping: for each iteration, the index of its
\* line, whether that line is a list entry, the ListEntry handed to
\* parseLine, and the index the loop continues at.
RECURSIVE Entries(_, _)
EntriesFrom(fileLines, entry) ==
  <<entry>> \o Entries(fileLines, entry.nextIndex)

Entries(fileLines, currentIndex) ==
  IF ~(currentIndex < Len(fileLines)) THEN <<>>
  ELSE IF IsListEntry(fileLines[currentIndex + 1])
       THEN EntriesFrom(fileLines,
                        ListIteration(fileLines, currentIndex,
                                      BodyEnd(fileLines, currentIndex + 1)))
       ELSE EntriesFrom(fileLines, LineIteration(fileLines, currentIndex))

\* array.unshift(event)
Push_Unshift(array, event) == <<event>> \o array

\* array.push(event)
Push(array, event) == Append(array, event)

\* if (event) { result.push(event); if (events) { events.push(event); } }
PushEvent(out, event) ==
  IF event = <<>> THEN out
  ELSE [result |-> Push(out.result, event[1]),
        events |-> IF out.events.isNull THEN out.events
                   ELSE [out.events EXCEPT !.items = Push(@, event[1])]]

\* The body of each iteration after the grouping: parse the entry, convert
\* it, and push the event, if there is one, on result and (when the caller
\* gave one) on events.
RECURSIVE ConvertEntries(_, _, _, _)
ConvertEntries(entries, path, dueLastIndex, out) ==
  IF entries = <<>> THEN out
  ELSE ConvertEntries(
         Tail(entries), path, dueLastIndex,
         PushEvent(out,
                   ConvertToEvent(ParseLine(Head(entries).listEntry, dueLastIndex),
                                  Head(entries).index, path)))

\* The function getEventsFromFile hands to safeExecute, from its start to
\* its return: the returned array and the caller's events array after it.
\* fileLines is what await vault.read(note) gave, split into lines;
\* dueLastIndex is PATTERNS.DUE_DATE.lastIndex when the scan runs.
GetEventsFromFile(note, fileLines, events, dueLastIndex) ==
  IF note.isNull THEN [result |-> <<>>, events |-> events]
  ELSE ConvertEntries(Entries(fileLines, 0), note.path, dueLastIndex,
                      [result |-> <<>>, events |-> events])

(***************************************************************************)
(* getEvents.ts: eventMatchesFilter.  An optional property is <<>> when    *)
(* it is undefined and <<value>> when it is set.                           *)
(***************************************************************************)
\* JavaScript truthiness of an optional string: set and not empty.
Truthy(opt) == opt # <<>> /\ opt[1] # <<>>

\* new RegExp(pattern) throws a SyntaxError: an unterminated group.  The
\* patterns modelled are made of literal characters, ".", a leading "^", a
\* trailing "$" and "(" ; the ones with a "(" are the invalid ones.
RegExpThrows(pattern) == \E k \in 1..Len(pattern) : pattern[k] = "("

\* regex.test(text) for a valid pattern of the modelled shape.
RegExpTest(pattern, text) ==
  LET anchored == Len(pattern) > 0 /\ pattern[1] = "^"
      toEnd    == Len(pattern) > 0 /\ pattern[Len(pattern)] = "$"
      core     == SubSeq(pattern, IF anchored THEN 2 ELSE 1,
                         IF toEnd THEN Len(pattern) - 1 ELSE Len(pattern))
      here(i)  == /\ i + Len(core) <= Len(text)
                  /\ \A k \in 1..Len(core) :
                       \/ core[k] = "." /\ text[i + k] \notin LineTerminator
                       \/ core[k] # "." /\ core[k] = text[i + k]
                  /\ toEnd => i + Len(core) = Len(text)
  IN  \E i \in 0..(IF anchored THEN 0 ELSE Len(text)) : here(i)

\* eventMatchesFilter without the try/catch around the pattern: a pattern
\* that does not compile ends the call in an exception.
EventMatchesFilter_NoCatch(event, filter) ==
  LET typeRejects ==
        /\ filter.eventType # <<>> /\ filter.eventType[1] # ""
        /\ event.eventType # filter.eventType[1]
      throws ==
        /\ ~typeRejects
        /\ Truthy(filter.contentRegex)
        /\ RegExpThrows(filter.contentRegex[1])
      regexRejects ==
        /\ Truthy(filter.contentRegex)
        /\ ~RegExpThrows(filter.contentRegex[1])
        /\ ~RegExpTest(filter.contentRegex[1], event.title)
      folderRejects ==
        /\ filter.folderPaths # <<>>
        /\ Len(filter.folderPaths[1]) > 0
        /\ Truthy(event.path)
        /\ ~\E k \in 1..Len(filter.folderPaths[1]) :
              StartsWith(event.path[1], filter.folderPaths[1][k])
  IN  [value  |-> ~throws /\ ~typeRejects /\ ~regexRejects /\ ~folderRejects,
       raised |-> throws]

\* eventMatchesFilter(event, filter): the value returned, or raised = TRUE
\* when the call ends in an exception.
EventMatchesFilter(event, filter) ==
  LET typeRejects ==
        /\ filter.eventType # <<>> /\ filter.eventType[1] # ""
        /\ event.eventType # filter.eventType[1]
      regexRejects ==
        /\ Truthy(filter.contentRegex)
        /\ ~RegExpThrows(filter.contentRegex[1])
        /\ ~RegExpTest(filter.contentRegex[1], event.title)
      folderRejects ==
        /\ filter.folderPaths # <<>>
        /\ Len(filter.folderPaths[1]) > 0
        /\ Truthy(event.path)
        /\ ~\E k \in 1..Len(filter.folderPaths[1]) :
              StartsWith(event.path[1], filter.folderPaths[1][k])
  IN  [value  |-> ~typeRejects /\ ~regexRejects /\ ~folderRejects,
       raised |-> FALSE]

(***************************************************************************)
(* The inputs the operations are called with                               *)
(***************************************************************************)
\* The longest note, in lines.
MaxLines == 3

\* "- [ ] a @{2024-03-01}"
ChecklistDated == <<"-", " ", "[", " ", "]", " ", "a", " ", "@", "{", "2", "0", "2", "4", "-", "0", "3", "-", "0", "1", "}">>

\* "- [ ] T"
ChecklistPlain == <<"-", " ", "[", " ", "]", " ", "T">>

\* "  @{2024-04-10}"
IndentedDate == <<" ", " ", "@", "{", "2", "0", "2", "4", "-", "0", "4", "-", "1", "0", "}">>

\* "b @{2024-03-01}"
PlainDated == <<"b", " ", "@", "{", "2", "0", "2", "4", "-", "0", "3", "-", "0", "1", "}">>

\* "  * [x] c"
IndentedStar == <<" ", " ", "*", " ", "[", "x", "]", " ", "c">>

\* "@{2024-13-01}"
InvalidDated == <<"@", "{", "2", "0", "2", "4", "-", "1", "3", "-", "0", "1", "}">>

\* " - [x] d"
IndentedChecklist == <<" ", "-", " ", "[", "x", "]", " ", "d">>

\* The lines notes are made of.
NoteLines ==
  {ChecklistDated, ChecklistPlain, IndentedDate, PlainDated, IndentedStar,
   InvalidDated, IndentedChecklist}

\* "9:05"
TimeLine == <<"9", ":", "0", "5">>

\* "<time>9:05</time>"
TaggedTimeLine == <<"<", "t", "i", "m", "e", ">", "9", ":", "0", "5", "<", "/", "t", "i", "m", "e", ">">>

\* " [due::2024-03-01]"
BracketDue == <<" ", "[", "d", "u", "e", ":", ":", "2", "0", "2", "4", "-", "0", "3", "-", "0", "1", "]">>

\* "x @{2024-03-01} @{2024-04-10}"
TwoDates == <<"x", " ", "@", "{", "2", "0", "2", "4", "-", "0", "3", "-", "0", "1", "}", " ", "@", "{", "2", "0", "2", "4", "-", "0", "4", "-", "1", "0", "}">>

\* "x"
PlainLine == <<"x">>

\* The lines extractDates is called with.
Lines ==
  NoteLines \cup {TimeLine, TaggedTimeLine, BracketDue, TwoDates, PlainLine}

\* The lines lineContainsTime is called with.
TimeLines ==
  {PlainDated, ChecklistPlain, TimeLine, TaggedTimeLine, BracketDue,
   PlainLine}

\* "notes/todo.md"
NotePath == <<"n", "o", "t", "e", "s", "/", "t", "o", "d", "o", ".", "m", "d">>

\* The note argument: null, or a file with its path.
NullNote == [isNull |-> TRUE, path |-> <<>>]

\* "notes/b.md"
OtherPath == <<"n", "o", "t", "e", "s", "/", "b", ".", "m", "d">>

\* The notes of the vault, and null.
Notes ==
  {NullNote, [isNull |-> FALSE, path |-> NotePath],
   [isNull |-> FALSE, path |-> OtherPath]}

\* The contents a note can have, as getAllLinesFromFile splits them.
FileLines == UNION {[1..n -> NoteLines] : n \in 0..MaxLines}

\* What vault.read can resolve to: any contents for notes/todo.md, and the
\* one line "b @{2024-03-01}" for notes/b.md.
VaultRead(note) ==
  IF note.path = NotePath THEN FileLines ELSE {<<PlainDated>>}

\* The most calls of getEventsFromFile in progress at once.
MaxCalls == 2


\* An event the caller's array may already hold.
EarlierEvent ==
  [id        |-> EventId(Moment(<<"2", "0", "2", "4", "-", "0", "1", "-", "0", "1">>), 0),
   title     |-> <<"e">>,
   start     |-> Moment(<<"2", "0", "2", "4", "-", "0", "1", "-", "0", "1">>),
   end       |-> Moment(<<"2", "0", "2", "4", "-", "0", "1", "-", "0", "1">>),
   allDay    |-> TRUE,
   eventType |-> "default",
   path      |-> <<"o">>]

\* The array the host passes as events, when it is not one a call in
\* progress holds already: empty, or with one event.
Arrays == {<<>>, <<EarlierEvent>>}

\* The labels getMarkBasedOnEvent is called with.
Labels ==
  {<<>>,
   <<"d", "e", "f", "a", "u", "l", "t">>,
   <<"T", "A", "S", "K">>,
   <<"T", "A", "S", "K", "-">>,
   <<"t", "a", "s", "k", "-", "T", "O", "D", "O">>,
   <<"T", "A", "S", "K", "-", "F", "O", "O">>,
   <<"T", "A", "S", "K", "-", "P", "R", "O", "-", "X">>,
   <<"T", "A", "S", "K", "-", "t", "o", "d", "o">>,
   <<"T", "A", "S", "K", "-", "T", "O", "D", "O">>,
   <<"T", "A", "S", "K", "-", "D", "O", "N", "E">>,
   <<"T", "A", "S", "K", "-", "C", "A", "N", "C", "E", "L", "L", "E", "D">>,
   <<"T", "A", "S", "K", "-", "I", "N", "_", "P", "R", "O", "G", "R", "E", "S", "S">>,
   <<"T", "A", "S", "K", "-", "I", "M", "P", "O", "R", "T", "A", "N", "T">>,
   <<"T", "A", "S", "K", "-", "Q", "U", "E", "S", "T", "I", "O", "N">>,
   <<"T", "A", "S", "K", "-", "R", "E", "V", "I", "E", "W">>,
   <<"T", "A", "S", "K", "-", "I", "D", "E", "A">>,
   <<"T", "A", "S", "K", "-", "P", "R", "O">>,
   <<"T", "A", "S", "K", "-", "C", "O", "N">>,
   <<"T", "A", "S", "K", "-", "B", "R", "A", "I", "N", "S", "T", "O", "R", "M", "I", "N", "G">>,
   <<"T", "A", "S", "K", "-", "E", "X", "A", "M", "P", "L", "E">>,
   <<"T", "A", "S", "K", "-", "Q", "U", "O", "T", "E">>,
   <<"T", "A", "S", "K", "-", "N", "O", "T", "E">>,
   <<"T", "A", "S", "K", "-", "W", "I", "N">>,
   <<"T", "A", "S", "K", "-", "L", "O", "S", "E">>}

\* The events and queries eventMatchesFilter is called with.
FilterEvents ==
  [eventType : {"default", "TASK-TODO"},
   title     : {<<"a", "b">>, <<"b">>},
   path      : {<<>>, << <<>> >>, <<<<"w", "o", "r", "k", "/", "a", ".", "m", "d">>>>, <<<<"h", "o", "m", "e", "/", "b", ".", "m", "d">>>>}]

Queries ==
  [eventType    : {<<>>, <<"">>, <<"default">>, <<"TASK-TODO">>},
   contentRegex : {<<>>, << <<>> >>, <<<<"a">>>>, <<<<"^", "b">>>>, <<<<"b", "$">>>>, <<<<".", "b">>>>, <<<<"(">>>>},
   folderPaths  : {<<>>, << <<>> >>, << <<<<"w", "o", "r", "k", "/">>>> >>, << <<<<"h", "o", "m", "e", "/">>>> >>,
                   << <<<<"h", "o", "m", "e", "/">>, <<"w", "o", "r", "k", "/">>>> >>}]

(***************************************************************************)
(* State.  lastIndex is the lastIndex of each g pattern of PATTERNS        *)
(* (module state that lives as long as the plugin).  calls gives, for each *)
(* note, the call of getEventsFromFile on it whose promise has not been    *)
(* awaited yet, if there is one; made counts the calls made since the      *)
(* host last had none in progress; accumulator is the array the host gave  *)
(* to the calls that hold one.  JavaScript runs one job at a time to       *)
(* completion: an action is one job (a synchronous call by the host, or    *)
(* the continuation of an await), and the jobs of different calls and of   *)
(* the host interleave.  op, args and ret show the job that has just run,  *)
(* with its inputs and its outcome, until control is back at the event     *)
(* loop.                                                                   *)
(***************************************************************************)
VARIABLES lastIndex, calls, made, accumulator, op, args, ret

vars == <<lastIndex, calls, made, accumulator, op, args, ret>>

\* A call of getEventsFromFile in progress: whether it was given the
\* host's array, where it is suspended, and the array fn has returned.
\*   "vault.read"         at await vault.read(note), the read not resolved
\*   "safeExecute"        at await fn() in safeExecute, fn's promise resolved
\*   "getEventsFromFile"  at await safeExecute(...), its promise resolved
\*   "settled"            the promise of getEventsFromFile is resolved and
\*                        the host's await of it has not continued
Suspended(shared, pc, result) ==
  [shared |-> shared, pc |-> pc, result |-> result]

\* No call in progress.
NoCall == Suspended(FALSE, "none", <<>>)

\* The notes with a call in progress.
InProgress == {n \in Notes : calls[n].pc # "none"}

\* Some call in progress holds the host's array.
Held == \E n \in InProgress : calls[n].shared

\* The events argument of a call: the host's array, or null.
EventsArg(shared, items) ==
  IF shared THEN [isNull |-> FALSE, items |-> items]
  ELSE [isNull |-> TRUE, items |-> <<>>]

Init ==
  /\ lastIndex = [p \in TestedPatterns |-> 0]
  /\ calls = [n \in Notes |-> NoCall]
  /\ made = 0
  /\ accumulator = <<>>
  /\ op = "idle"
  /\ args = <<>>
  /\ ret = <<>>

\* getEventsFromFile(note, events) is called: the code up to the first
\* await.  For a null note fn returns [] at once and the call is suspended
\* in safeExecute; otherwise fn is suspended at await vault.read(note).
\* The host passes null, an array of its own, or the array it gave to a
\* call that is still in progress; it has one call in progress for a note
\* at a time, as getEvents, which reads each file of the vault once.
CallGetEventsFromFile ==
  /\ op = "idle"
  /\ made < MaxCalls
  /\ made' = made + 1
  /\ \E note \in Notes \ InProgress, shared \in BOOLEAN :
       /\ \E items \in IF shared /\ ~Held THEN Arrays ELSE {accumulator} :
            accumulator' = items
       /\ calls' = [calls EXCEPT ![note] =
                      IF note.isNull
                      THEN Suspended(shared, "safeExecute",
                                     GetEventsFromFile(
                                       note, <<>>,
                                       EventsArg(shared, accumulator'),
                                       lastIndex["DUE_DATE"]).result)
                      ELSE Suspended(shared, "vault.read", <<>>)]
  /\ UNCHANGED <<lastIndex, op, args, ret>>

\* vault.read(note) resolves to the file's contents and fn continues after
\* its await: the whole scan of the lines runs in this job, reading
\* PATTERNS.DUE_DATE.lastIndex and the host's array as they are now.
VaultReadResolves(note) ==
  /\ op = "idle"
  /\ calls[note].pc = "vault.read"
  /\ \E fileLines \in VaultRead(note) :
       \E out \in {GetEventsFromFile(note, fileLines,
                                     EventsArg(calls[note].shared, accumulator),
                                     lastIndex["DUE_DATE"])} :
         /\ calls' = [calls EXCEPT ![note].pc = "safeExecute",
                                   ![note].result = out.result]
         /\ accumulator' = IF calls[note].shared THEN out.events.items
                           ELSE accumulator
         /\ args' = [note |-> note, fileLines |-> fileLines,
                     events |-> EventsArg(calls[note].shared, accumulator)]
         /\ ret' = out
  /\ op' = "fn"
  /\ UNCHANGED <<lastIndex, made>>

\* safeExecute continues after await fn() and returns fn's value.
SafeExecuteResumes(note) ==
  /\ op = "idle"
  /\ calls[note].pc = "safeExecute"
  /\ calls' = [calls EXCEPT ![note].pc = "getEventsFromFile"]
  /\ UNCHANGED <<lastIndex, made, accumulator, op, args, ret>>

\* getEventsFromFile continues after await safeExecute(...) and returns
\* its value: the promise the host holds is resolved.
GetEventsFromFileResumes(note) ==
  /\ op = "idle"
  /\ calls[note].pc = "getEventsFromFile"
  /\ calls' = [calls EXCEPT ![note].pc = "settled"]
  /\ UNCHANGED <<lastIndex, made, accumulator, op, args, ret>>

\* The host's await of the promise continues: it gets the returned array,
\* and sees its own array as it is now.  The host lets go of its array
\* with the last call that holds it.
Await(note) ==
  /\ op = "idle"
  /\ calls[note].pc = "settled"
  /\ args' = [note |-> note]
  /\ ret' = [result |-> calls[note].result,
             events |-> EventsArg(calls[note].shared, accumulator)]
  /\ calls' = [calls EXCEPT ![note] = NoCall]
  /\ made' = IF InProgress = {note} THEN 0 ELSE made
  /\ accumulator' = IF \E n \in InProgress \ {note} : calls[n].shared
                    THEN accumulator ELSE <<>>
  /\ op' = "await"
  /\ UNCHANGED lastIndex

\* extractDates(line)
CallExtractDates(lines) ==
  /\ op = "idle"
  /\ \E line \in lines :
       /\ args' = [line |-> line]
       /\ ret' = ExtractDates(line, lastIndex["DUE_DATE"])
  /\ op' = "extractDates"
  /\ UNCHANGED <<lastIndex, calls, made, accumulator>>

\* lineContainsTime(line)
CallLineContainsTime(lines) ==
  /\ op = "idle"
  /\ \E line \in lines :
       \E r \in {LineContainsTime(line, lastIndex)} :
         /\ args' = [line |-> line]
         /\ ret' = r.ret
         /\ lastIndex' = r.lastIndex
  /\ op' = "lineContainsTime"
  /\ UNCHANGED <<calls, made, accumulator>>

\* eventMatchesFilter(event, filter)
CallEventMatchesFilter ==
  /\ op = "idle"
  /\ \E event \in FilterEvents, filter \in Queries :
       /\ args' = [event |-> event, filter |-> filter]
       /\ ret' = EventMatchesFilter(event, filter)
  /\ op' = "eventMatchesFilter"
  /\ UNCHANGED <<lastIndex, calls, made, accumulator>>

\* getMarkBasedOnEvent(eventType)
CallGetMarkBasedOnEvent ==
  /\ op = "idle"
  /\ \E eventType \in Labels :
       /\ args' = [eventType |-> eventType]
       /\ ret' = GetMarkBasedOnEvent(eventType)
  /\ op' = "getMarkBasedOnEvent"
  /\ UNCHANGED <<lastIndex, calls, made, accumulator>>

\* The job ends: control is back at the event loop.
Return ==
  /\ op # "idle"
  /\ op' = "idle"
  /\ args' = <<>>
  /\ ret' = <<>>
  /\ UNCHANGED <<lastIndex, calls, made, accumulator>>

\* getEventsFromFile with its awaits, and lineContainsTime called between
\* its jobs.
Next ==
  \/ CallGetEventsFromFile
  \/ \E note \in Notes : VaultReadResolves(note)
  \/ \E note \in Notes : SafeExecuteResumes(note)
  \/ \E note \in Notes : GetEventsFromFileResumes(note)
  \/ \E note \in Notes : Await(note)
  \/ CallLineContainsTime({PlainDated})
  \/ Return

Spec == Init /\ [][Next]_vars

\* The synchronous operations of the parser that share the patterns'
\* lastIndex: extractDates and lineContainsTime.
ParserNext ==
  \/ CallExtractDates(Lines)
  \/ CallLineContainsTime(TimeLines)
  \/ Return

ParserSpec == Init /\ [][ParserNext]_vars

\* The functions without state: eventMatchesFilter and getMarkBasedOnEvent.
PureNext ==
  \/ CallEventMatchesFilter
  \/ CallGetMarkBasedOnEvent
  \/ Return

PureSpec == Init /\ [][PureNext]_vars


(***************************************************************************)
(* Vocabulary of the properties, stated on the text alone                  *)
(***************************************************************************)
\* The indexes at which a due-date annotation @{YYYY-MM-DD} starts in s.
AnnotationStarts(s) == {i \in 0..Len(s) : DueBodyAt(s, i)}

\* The date texts of the annotations of s, in order of appearance.
RECURSIVE AnnotationsFrom(_, _)
AnnotationsFrom(s, i) ==
  IF i >= Len(s) THEN <<>>
  ELSE IF DueBodyAt(s, i)
       THEN <<Substring(s, i + 2, i + 12)>> \o AnnotationsFrom(s, i + 13)
       ELSE AnnotationsFrom(s, i + 1)

Annotations(s) == AnnotationsFrom(s, 0)

\* s without its annotations (each with the one white space before it, if
\* there is one), trimmed.
RECURSIVE WithoutAnnotationsFrom(_, _)
WithoutAnnotationsFrom(s, i) ==
  IF i >= Len(s) THEN <<>>
  ELSE IF DueBodyAt(s, i) THEN WithoutAnnotationsFrom(s, i + 13)
  ELSE IF s[i + 1] \in WhiteSpace /\ DueBodyAt(s, i + 1)
       THEN WithoutAnnotationsFrom(s, i + 14)
  ELSE <<s[i + 1]>> \o WithoutAnnotationsFrom(s, i + 1)

WithoutAnnotations(s) == Trim(WithoutAnnotationsFrom(s, 0))

\* The line index an event's id ends with (the id is twelve characters of
\* formatted date, "00", then the index).
LineIndexOf(event) == ParseNat(SubSeq(event.id, 15, Len(event.id)))

\* A call of getEventsFromFile has just scanned the lines of its note.
Extracted == op = "fn"

\* The entries that call grouped the note's lines into, and what each was
\* parsed to.
CallEntries == Entries(args.fileLines, 0)

ParsedOf(entry) == ParseLine(entry.listEntry, lastIndex["DUE_DATE"])

\* The lines of an entry: its first line and the lines of its body.
EntryLines(entry) ==
  [k \in 1..(entry.nextIndex - entry.index) |->
     args.fileLines[entry.index + k]]

\* All annotations of an entry's lines, in order.
RECURSIVE AnnotationsOfLines(_)
AnnotationsOfLines(ls) ==
  IF ls = <<>> THEN <<>>
  ELSE Annotations(Head(ls)) \o AnnotationsOfLines(Tail(ls))

\* The events of a sequence whose id carries line index i.
EventsAt(events, i) == {k \in 1..Len(events) : LineIndexOf(events[k]) = i}

(***************************************************************************)
(* C1                                                                      *)
(***************************************************************************)
\* C1: every entry of a note that carries exactly one due-date annotation
\* yields exactly one event of getEventsFromFile, dated on the annotation's
\* day, all-day, with the note's path, titled by the entry's text without
\* the annotation; this includes a checklist line that carries the
\* annotation itself.
C1_OneAnnotationOneEvent ==
  Extracted =>
    \A k \in 1..Len(CallEntries) :
      LET entry == CallEntries[k]
          found == AnnotationsOfLines(EntryLines(entry))
          line  == args.fileLines[entry.index + 1]
          text  == IF entry.isList
                   THEN Substring(line, ListEntryPrefix(line), Len(line))
                   ELSE line
          at    == EventsAt(ret.result, entry.index)
      IN  Len(found) = 1 =>
            /\ Cardinality(at) = 1
            /\ \A e \in at :
                 /\ ret.result[e].start = Moment(found[1])
                 /\ ret.result[e].end = Moment(found[1])
                 /\ ret.result[e].allDay
                 /\ ret.result[e].path = args.note.path
                 /\ ret.result[e].title = WithoutAnnotations(text)

(***************************************************************************)
(* C2                                                                      *)
(***************************************************************************)
\* The note of the call has no due-date annotation on any line.
NoAnnotation ==
  \A k \in 1..Len(args.fileLines) :
    AnnotationStarts(args.fileLines[k]) = {}

\* C2: an entry yields an event if and only if its parsed dates are not
\* empty (convertToEvent returns null exactly for empty dates), so the
\* result has one event per entry with dates, and a note without any
\* due-date annotation yields no event and leaves the caller's array as
\* it was.
C2_EventIffDates ==
  Extracted =>
    /\ \A k \in 1..Len(CallEntries) :
         LET parsed == ParsedOf(CallEntries[k])
         IN  (ConvertToEvent(parsed, CallEntries[k].index, args.note.path) = <<>>)
               <=> (parsed.dates = <<>>)
    /\ Len(ret.result) =
         Cardinality({k \in 1..Len(CallEntries) :
                        ParsedOf(CallEntries[k]).dates # <<>>})
    /\ NoAnnotation => ret.result = <<>> /\ ret.events = args.events

\* A note of at least two lines, one of them a checklist line, without any
\* annotation was scanned into an array that already held an event.
C2_Witness ==
  /\ Extracted
  /\ NoAnnotation
  /\ Len(args.fileLines) >= 2
  /\ \E k \in 1..Len(CallEntries) : CallEntries[k].isList
  /\ args.events.items # <<>>
  /\ ret.result = <<>>

(***************************************************************************)
(* C3                                                                      *)
(***************************************************************************)
\* The checklist-line pattern with any list marker and text after the
\* checkbox.
MatchesTaskPattern(line) == TASK(line, 0) # NoMatch

\* The body boundary, for a given reading of "checklist line": the body of
\* an entry that starts at a checklist line is exactly the following lines
\* that are indented and are not checklist lines, it ends at the first line
\* that is un-indented or a checklist line, an entry that starts at any
\* other line is that line alone, and every line that is un-indented or a
\* checklist line starts an entry of its own.
IsChecklist(reading, line) ==
  IF reading = "any marker" THEN MatchesTaskPattern(line) ELSE IsListEntry(line)

BodyBoundary(reading) ==
  LET fileLines == args.fileLines
      InBody(l) == IsIndented(l) /\ ~IsChecklist(reading, l)
  IN  /\ \A k \in 1..Len(CallEntries) :
           LET entry == CallEntries[k]
           IN  IF IsChecklist(reading, fileLines[entry.index + 1])
               THEN /\ \A i \in (entry.index + 1)..(entry.nextIndex - 1) :
                         InBody(fileLines[i + 1])
                    /\ entry.nextIndex < Len(fileLines)
                         => ~InBody(fileLines[entry.nextIndex + 1])
               ELSE entry.nextIndex = entry.index + 1
      /\ \A i \in 0..(Len(fileLines) - 1) :
           ~InBody(fileLines[i + 1])
             => \E k \in 1..Len(CallEntries) : CallEntries[k].index = i

\* C3 as stated: the body boundary, where a checklist line is a line of
\* leading white space, any list marker (-, *, + or 1.), a one-character
\* checkbox, then text.
C3_BodyBoundary_AnyMarker == Extracted => BodyBoundary("any marker")

\* C3, amended: the body boundary, where a checklist line is a line that
\* starts with optional white space, a hyphen, white space and a
\* one-character checkbox (the test getEventsFromFile applies).
\* The body text handed to parseLine is those lines, trimmed and joined by
\* line breaks.
C3_BodyBoundary_Hyphen ==
  Extracted =>
    /\ BodyBoundary("hyphen")
    /\ \A k \in 1..Len(CallEntries) :
         LET entry == CallEntries[k]
         IN  IsListEntry(args.fileLines[entry.index + 1]) =>
               entry.listEntry.body =
                 Join([i \in 1..(entry.nextIndex - entry.index - 1) |->
                         Trim(args.fileLines[entry.index + 1 + i])],
                      <<"\n">>)

\* A checklist line was followed by a body and then by a line that ended
\* the body, and an indented hyphen checklist line started its own entry.
C3_Witness ==
  /\ Extracted
  /\ \E k \in 1..Len(CallEntries) :
       /\ CallEntries[k].isList
       /\ CallEntries[k].nextIndex > CallEntries[k].index + 1
       /\ CallEntries[k].nextIndex < Len(args.fileLines)
  /\ \E k \in 1..Len(CallEntries) :
       /\ CallEntries[k].index > 0
       /\ CallEntries[k].isList
       /\ IsIndented(args.fileLines[CallEntries[k].index + 1])

(***************************************************************************)
(* C4                                                                      *)
(***************************************************************************)
\* The twelve characters format('YYYYMMDDHHmm') gives for a date of the
\* shown day at 00:00, read off the date's text.
MinuteStamp(dateText) ==
  SubSeq(dateText, 1, 4) \o SubSeq(dateText, 6, 7) \o SubSeq(dateText, 9, 10)
  \o <<"0", "0", "0", "0">>

\* C4: within one pass of getEventsFromFile any two distinct events of the
\* result have different ids; each id is its entry's first matched date
\* formatted to the minute, then "00", then the index of the entry's first
\* line, and no two events of the pass carry the same index.
C4_IdsDistinct ==
  Extracted =>
    /\ \A i, j \in 1..Len(ret.result) :
         i # j => /\ ret.result[i].id # ret.result[j].id
                  /\ LineIndexOf(ret.result[i]) # LineIndexOf(ret.result[j])
    /\ \A i \in 1..Len(ret.result) :
         \E k \in 1..Len(CallEntries) :
           LET parsed == ParsedOf(CallEntries[k])
           IN  /\ parsed.dates # <<>>
               /\ ret.result[i].id =
                    (IF parsed.dates[1].moment.valid
                     THEN MinuteStamp(parsed.dates[1].date)
                     ELSE InvalidDateText)
                    \o <<"0", "0">> \o NatToString(CallEntries[k].index)

\* Two events of one pass share their date, so that only the line index
\* tells their ids apart.
C4_Witness ==
  /\ Extracted
  /\ \E i, j \in 1..Len(ret.result) :
       /\ i # j
       /\ ret.result[i].start = ret.result[j].start
       /\ ret.result[i].start.valid

(***************************************************************************)
(* C5                                                                      *)
(***************************************************************************)
\* C5: extraction does not depend on earlier calls of the parser: the
\* scan of getEventsFromFile returns what it returns for the same note,
\* contents and array when no operation of the parser was called before,
\* and extractDates, which it applies to the body of each entry, returns
\* every due-date annotation of that text in order of appearance,
\* whatever calls came before (lineContainsTime among them).
C5_ExtractionIndependent ==
  Extracted =>
    /\ ret = GetEventsFromFile(args.note, args.fileLines, args.events, 0)
    /\ \A k \in 1..Len(CallEntries) :
         LET dates == ExtractDates(CallEntries[k].listEntry.body,
                                   lastIndex["DUE_DATE"])
             found == Annotations(CallEntries[k].listEntry.body)
         IN  /\ Len(dates) = Len(found)
             /\ \A d \in 1..Len(dates) : dates[d].date = found[d]

(***************************************************************************)
(* C6                                                                      *)
(***************************************************************************)
\* Line i of the note is a body line: an entry that starts before it
\* continues past it.
IsBodyLine(i) ==
  \E k \in 1..Len(CallEntries) :
    CallEntries[k].index < i /\ i < CallEntries[k].nextIndex

\* C6: the events getEventsFromFile returns are in strictly increasing
\* order of their line index, that index is the index of an entry's first
\* line and never of a body line, and the events appended to the caller's
\* array are the same events in the same order: the scan appends them
\* after what the array holds, and when the caller's await continues the
\* array holds them in that order, side by side, whatever other calls
\* have appended meanwhile.
C6_LineOrder ==
  /\ Extracted =>
       /\ \A i, j \in 1..Len(ret.result) :
            i < j => LineIndexOf(ret.result[i]) < LineIndexOf(ret.result[j])
       /\ \A i \in 1..Len(ret.result) :
            /\ LineIndexOf(ret.result[i]) < Len(args.fileLines)
            /\ ~IsBodyLine(LineIndexOf(ret.result[i]))
       /\ ~args.events.isNull =>
            ret.events.items = args.events.items \o ret.result
       /\ args.events.isNull => ret.events = args.events
  /\ op = "await" /\ ~ret.events.isNull =>
       \E k \in 0..(Len(ret.events.items) - Len(ret.result)) :
         SubSeq(ret.events.items, k + 1, k + Len(ret.result)) = ret.result

\* Two events were returned, the first from a checklist entry whose date
\* is on its body line, and they were appended to an array that held an
\* event of the call on notes/b.md, which is in progress too.
C6_Witness ==
  /\ Extracted
  /\ Len(ret.result) >= 2
  /\ LineIndexOf(ret.result[1]) = 0
  /\ LineIndexOf(ret.result[2]) = 2
  /\ IsBodyLine(1)
  /\ \E k \in 1..Len(args.events.items) :
       args.events.items[k].path = OtherPath
  /\ Len(ret.events.items) = Len(args.events.items) + 2

(***************************************************************************)
(* C7                                                                      *)
(***************************************************************************)
\* An optional string is unspecified: undefined or empty.
Unspecified(opt) == opt = <<>> \/ opt[1] = <<>>

\* C7: eventMatchesFilter returns true exactly when the query's eventType
\* is unspecified or equal to the event's, its contentRegex is
\* unspecified, does not compile or matches the title, and its folderPaths
\* is unspecified or empty, or the event has no path, or the path starts
\* with one of the folders; the call never raises.
C7_FilterMeaning ==
  op = "eventMatchesFilter" =>
    LET event  == args.event
        filter == args.filter
        typeOk ==
          \/ filter.eventType = <<>> \/ filter.eventType = <<"">>
          \/ filter.eventType[1] = event.eventType
        regexOk ==
          \/ Unspecified(filter.contentRegex)
          \/ RegExpThrows(filter.contentRegex[1])
          \/ RegExpTest(filter.contentRegex[1], event.title)
        folderOk ==
          \/ Unspecified(filter.folderPaths)
          \/ Unspecified(event.path)
          \/ \E k \in 1..Len(filter.folderPaths[1]) :
               LET folder == filter.folderPaths[1][k]
               IN  /\ Len(folder) <= Len(event.path[1])
                   /\ SubSeq(event.path[1], 1, Len(folder)) = folder
    IN  /\ ~ret.raised
        /\ ret.value = (typeOk /\ regexOk /\ folderOk)

\* A query with a contentRegex that does not compile and two folders, the
\* second of which holds the event, was evaluated and accepted the event.
C7_Witness ==
  /\ op = "eventMatchesFilter"
  /\ args.filter.contentRegex # <<>>
  /\ args.filter.contentRegex[1] # <<>>
  /\ RegExpThrows(args.filter.contentRegex[1])
  /\ args.filter.folderPaths # <<>>
  /\ Len(args.filter.folderPaths[1]) = 2
  /\ args.event.path # <<>>
  /\ args.event.path[1] # <<>>
  /\ ret.value

(***************************************************************************)
(* C8                                                                      *)
(***************************************************************************)
TaskPrefix == <<"T", "A", "S", "K", "-">>

\* The character the reverse mapping lists for a kind, as a set: empty for
\* a kind that is not recognized.
ListedMark(kind) ==
  {MarkCases[k].mark : k \in {j \in 1..Len(MarkCases) : MarkCases[j].kind = kind}}

\* C8 as stated: getMarkBasedOnEvent returns null for every label that does
\* not start with "TASK-" and for every label "TASK-<KIND>" whose KIND is
\* not recognized, and the listed character for a recognized KIND.
C8_UnrecognizedKindNull ==
  op = "getMarkBasedOnEvent" =>
    LET label == args.eventType
        kind  == SubSeq(label, 6, Len(label))
    IN  IF ~StartsWith(label, TaskPrefix) \/ ListedMark(kind) = {}
        THEN ret = <<>>
        ELSE ret # <<>> /\ ret[1] \in ListedMark(kind)

\* C8, amended: getMarkBasedOnEvent returns null exactly for the labels
\* that do not start with "TASK-"; for the others the kind is the text
\* between "TASK-" and the next "-" (or the end), a recognized kind gives
\* its listed character (PRO gives "+", CON gives "-") and every other
\* kind gives " ", the character of TODO.
C8_UnrecognizedKindDefault ==
  op = "getMarkBasedOnEvent" =>
    LET label == args.eventType
        ends  == {n \in 5..Len(label) :
                    /\ \A i \in 6..n : label[i] # "-"
                    /\ n = Len(label) \/ label[n + 1] = "-"}
        kind  == SubSeq(label, 6, CHOOSE n \in ends : TRUE)
    IN  IF ~StartsWith(label, TaskPrefix) THEN ret = <<>>
        ELSE /\ Cardinality(ends) = 1
             /\ ret # <<>>
             /\ IF ListedMark(kind) = {} THEN ret[1] = " "
                ELSE ret[1] \in ListedMark(kind)
             /\ kind = <<"P", "R", "O">> => ret[1] = "+"
             /\ kind = <<"C", "O", "N">> => ret[1] = "-"

\* The label "TASK-FOO", whose kind is not recognized, was mapped, and the
\* result was not null.
C8_Witness ==
  /\ op = "getMarkBasedOnEvent"
  /\ args.eventType = <<"T", "A", "S", "K", "-", "F", "O", "O">>
  /\ ret = <<" ">>

(***************************************************************************)
(* C9                                                                      *)
(***************************************************************************)
\* The pattern named p matches somewhere in the line.
MatchesSomewhere(p, line) == \E i \in 0..Len(line) : MatchAt(p, line, i) # NoMatch

\* C9: lineContainsTime(line) is true exactly when the line contains time
\* information, a due-date annotation, or is a task line; the result
\* depends on the line alone, whatever calls came before.
C9_LineContainsTimeOfLineOnly ==
  op = "lineContainsTime" =>
    ret = \/ MatchesSomewhere("TIME_STANDARD", args.line)
          \/ MatchesSomewhere("TIME_WITH_TAG", args.line)
          \/ MatchesSomewhere("DUE_DATE", args.line)
          \/ MatchesSomewhere("_DUE_DATE", args.line)
          \/ MatchesSomewhere("END_TIME", args.line)
          \/ MatchesTaskPattern(args.line)

(***************************************************************************)
(* C10                                                                     *)
(***************************************************************************)
\* The forward status mapping: the status of a checkbox character.
StatusOf(c) == IF c \in DOMAIN STATUS_MAPPING THEN STATUS_MAPPING[c] ELSE "Unknown"

\* C10: the entry handed to convertToEvent for a line the grouper takes as
\* a checklist line has isTask true, statusCharacter the character in the
\* checkbox and taskStatus the forward mapping of that character; the
\* entry of any other line is not a task.
C10_TaskClassification ==
  Extracted =>
    \A k \in 1..Len(CallEntries) :
      LET entry  == CallEntries[k]
          line   == args.fileLines[entry.index + 1]
          parsed == ParsedOf(entry)
          box    == At(line, ListEntryPrefix(line) - 2)
      IN  IF entry.isList
          THEN /\ parsed.isTask
               /\ "statusCharacter" \in DOMAIN parsed
               /\ parsed.statusCharacter = box
               /\ "taskStatus" \in DOMAIN parsed
               /\ parsed.taskStatus = StatusOf(box)
          ELSE ~parsed.isTask

====
